---------------------------- MODULE Spec2Model ----------------------------
(***************************************************************************)
(* Role-based access control of the LCA tool's `users` application:        *)
(* the route guards and mixins of users/decorators.py, the permission      *)
(* classes of users/permissions.py and the user-management view of         *)
(* users/views.py.                                                         *)
(*                                                                         *)
(* Python objects are records whose DOMAIN is the set of their attributes, *)
(* so that getattr(obj, name, default) and a missing attribute are what    *)
(* they are in the code.  A response is [status, body, invoked]: the HTTP  *)
(* status, the JSON body and the number of times the wrapped handler ran.  *)
(***************************************************************************)
EXTENDS Integers, Sequences, FiniteSets, TLC

VARIABLES
    users,      \* the user store: account id -> role
    resources,  \* the resource collection (a queryset's rows, in id order)
    request,    \* the request being served: entry point, principal, configuration
    response    \* what the entry point returned for it

vars == <<users, resources, request, response>>

---------------------------------------------------------------------------
(* Bounds of the model *)

NumUsers == 2
MaxResources == 2

UserIds == 1..NumUsers

---------------------------------------------------------------------------
(* Roles and principals *)

\* models.py ROLE_CHOICES
Roles == {"engineer", "metallurgist", "admin"}

\* A role string outside the closed set (role is a free CharField in the store).
UnrecognizedRole == "intern"

RoleValues == Roles \cup {UnrecognizedRole}

\* permissions.py ROLE_HIERARCHY
ROLE_HIERARCHY == [admin |-> 3, metallurgist |-> 2, engineer |-> 1]

\* dict.get(key, default)
DictGet(d, key, default) == IF key \in DOMAIN d THEN d[key] ELSE default

\* getattr(obj, name, default)
GetAttr(obj, name, default) == IF name \in DOMAIN obj THEN obj[name] ELSE default

\* request.user of a request that carries no session: is_authenticated is False.
\* (The guards read .role only after is_authenticated.)
AnonymousUser == [is_authenticated |-> FALSE, id |-> 0, role |-> "anonymous"]

\* request.user of a logged-in account.
User(id, role) == [is_authenticated |-> TRUE, id |-> id, role |-> role]

\* The principals a guard is evaluated for: a guard reads is_authenticated and role only.
Principals == {AnonymousUser} \cup {User(1, r) : r \in RoleValues}

\* Role lists handed to the allow-list guards; only membership and emptiness are read.
RoleLists == SUBSET Roles

---------------------------------------------------------------------------
(* Responses *)

HTTP_401_UNAUTHORIZED == 401
HTTP_403_FORBIDDEN == 403
HTTP_400_BAD_REQUEST == 400

\* JsonResponse(body, status=...) / Response(body, status=...) built by a guard:
\* the handler did not run.
Rejection(body, status) == [status |-> status, body |-> body, invoked |-> 0]

\* What calling the wrapped handler gives: it ran once, and this is its result.
HandlerResult == [status |-> 200, body |-> [detail |-> "handler result"], invoked |-> 1]

\* django.contrib.auth.decorators.login_required: an unauthenticated request is
\* redirected to the login page, the wrapped view is not called.
login_required(user, wrapped) ==
    IF user.is_authenticated
    THEN wrapped
    ELSE Rejection([location |-> "login"], 302)

---------------------------------------------------------------------------
(* decorators.py: function-style guards *)

\* _wrapped_view of role_required(*roles), below @login_required
role_required_wrapped(roles, user, view_func) ==
    IF ~user.is_authenticated
    THEN Rejection([error |-> "Authentication required"], HTTP_401_UNAUTHORIZED)
    ELSE IF user.role \notin roles
    THEN Rejection([error |-> "Insufficient permissions",
                    required_roles |-> roles,
                    user_role |-> user.role], HTTP_403_FORBIDDEN)
    ELSE view_func

role_required(roles, user, view_func) ==
    login_required(user, role_required_wrapped(roles, user, view_func))

\* _wrapped_view of minimum_role_required(minimum_role), below @login_required
minimum_role_required_wrapped(minimum_role, user, view_func) ==
    IF ~user.is_authenticated
    THEN Rejection([error |-> "Authentication required"], HTTP_401_UNAUTHORIZED)
    ELSE LET user_level == DictGet(ROLE_HIERARCHY, user.role, 0)
             required_level == DictGet(ROLE_HIERARCHY, minimum_role, 0)
         IN  IF user_level < required_level
             THEN Rejection([error |-> "Insufficient role level",
                             minimum_role |-> minimum_role,
                             user_role |-> user.role], HTTP_403_FORBIDDEN)
             ELSE view_func

minimum_role_required(minimum_role, user, view_func) ==
    login_required(user, minimum_role_required_wrapped(minimum_role, user, view_func))

\* api_role_required(*roles): no login_required here
api_role_required(roles, user, view_func) ==
    IF ~user.is_authenticated
    THEN Rejection([error |-> "Authentication required"], HTTP_401_UNAUTHORIZED)
    ELSE IF user.role \notin roles
    THEN Rejection([error |-> "Insufficient permissions",
                    required_roles |-> roles,
                    user_role |-> user.role], HTTP_403_FORBIDDEN)
    ELSE view_func

---------------------------------------------------------------------------
(* decorators.py: RoleBasedViewMixin *)

\* A view class is the record of the attributes it declares.  RoleBasedViewMixin
\* declares required_roles = None and minimum_role = None; None is falsy, and so
\* are an empty list and an empty string.
NoView == [a \in {} |-> {}]

Views ==
    {NoView}
    \cup {[required_roles |-> L] : L \in RoleLists}
    \cup {[minimum_role |-> M] : M \in RoleValues}
    \cup {[required_roles |-> L, minimum_role |-> M] : L \in RoleLists, M \in RoleValues}

\* truthiness of self.required_roles (None when the view does not set it)
RequiredRolesSet(view) == "required_roles" \in DOMAIN view /\ view.required_roles # {}

\* truthiness of self.minimum_role (None when the view does not set it)
MinimumRoleSet(view) == "minimum_role" \in DOMAIN view /\ view.minimum_role # ""

\* RoleBasedViewMixin.dispatch with `self.required_roles is not None and ...`:
\* an empty list is a list nobody is in.
RoleBasedViewMixin_dispatch_EmptyListDenies(view, user, super_dispatch) ==
    IF ~user.is_authenticated
    THEN Rejection([error |-> "Authentication required"], HTTP_401_UNAUTHORIZED)
    ELSE IF "required_roles" \in DOMAIN view /\ user.role \notin view.required_roles
    THEN Rejection([error |-> "Insufficient permissions",
                    required_roles |-> view.required_roles,
                    user_role |-> user.role], HTTP_403_FORBIDDEN)
    ELSE IF MinimumRoleSet(view)
            /\ DictGet(ROLE_HIERARCHY, user.role, 0)
                 < DictGet(ROLE_HIERARCHY, view.minimum_role, 0)
    THEN Rejection([error |-> "Insufficient role level",
                    minimum_role |-> view.minimum_role,
                    user_role |-> user.role], HTTP_403_FORBIDDEN)
    ELSE super_dispatch

\* super_dispatch: what super().dispatch(request, *args, **kwargs) returns
RoleBasedViewMixin_dispatch(view, user, super_dispatch) ==
    IF ~user.is_authenticated
    THEN Rejection([error |-> "Authentication required"], HTTP_401_UNAUTHORIZED)
    ELSE IF RequiredRolesSet(view) /\ user.role \notin view.required_roles
    THEN Rejection([error |-> "Insufficient permissions",
                    required_roles |-> view.required_roles,
                    user_role |-> user.role], HTTP_403_FORBIDDEN)
    ELSE IF MinimumRoleSet(view)
            /\ DictGet(ROLE_HIERARCHY, user.role, 0)
                 < DictGet(ROLE_HIERARCHY, view.minimum_role, 0)
    THEN Rejection([error |-> "Insufficient role level",
                    minimum_role |-> view.minimum_role,
                    user_role |-> user.role], HTTP_403_FORBIDDEN)
    ELSE super_dispatch

---------------------------------------------------------------------------
(* permissions.py: permission classes.  has_permission reads request.user  *)
(* and request.method and returns a truth value.                           *)

Methods == {"GET", "HEAD", "OPTIONS", "POST", "PUT", "PATCH", "DELETE"}

\* rest_framework.permissions.SAFE_METHODS
SAFE_METHODS == {"GET", "HEAD", "OPTIONS"}

IsAdminRole(req) ==
    req.user.is_authenticated /\ req.user.role = "admin"

IsMetallurgistOrAdmin(req) ==
    req.user.is_authenticated /\ req.user.role \in {"metallurgist", "admin"}

\* IsEngineerOrAbove that looks at the authentication only
IsEngineerOrAbove_AnyRole(req) == req.user.is_authenticated

IsEngineerOrAbove(req) ==
    req.user.is_authenticated /\ req.user.role \in {"engineer", "metallurgist", "admin"}

\* CanUploadDatasets asking for the writer roles on reads as well
CanUploadDatasets_WritersOnly(req) ==
    req.user.is_authenticated /\ req.user.role \in {"metallurgist", "admin"}

CanUploadDatasets(req) ==
    IF req.method \in SAFE_METHODS
    THEN req.user.is_authenticated
    ELSE req.user.is_authenticated /\ req.user.role \in {"metallurgist", "admin"}

CanRunLCA(req) ==
    req.user.is_authenticated /\ req.user.role \in {"engineer", "metallurgist", "admin"}

CanManageAIModels(req) ==
    IF req.method \in SAFE_METHODS
    THEN req.user.is_authenticated
    ELSE req.user.is_authenticated /\ req.user.role \in {"metallurgist", "admin"}

CanViewReports(req) == req.user.is_authenticated

\* CanViewReports.has_object_permission in which a metallurgist, too, sees every report
CanViewReports_has_object_permission_Elevated(req, obj) ==
    IF req.user.role \in {"metallurgist", "admin"}
    THEN TRUE
    ELSE obj.created_by = req.user.id

\* CanViewReports.has_object_permission; obj.created_by == request.user
CanViewReports_has_object_permission(req, obj) ==
    IF req.user.role = "admin"
    THEN TRUE
    ELSE obj.created_by = req.user.id

\* A detail route with permission_classes = [CanViewReports]: has_permission is
\* asked when the request comes in, has_object_permission when get_object() has
\* the report; the second is not asked when the first said no.
CanViewReports_access(req, obj) ==
    IF ~CanViewReports(req)
    THEN FALSE
    ELSE CanViewReports_has_object_permission(req, obj)

CanManageUsers(req) ==
    IF req.method \in SAFE_METHODS
    THEN req.user.is_authenticated
    ELSE req.user.is_authenticated /\ req.user.role = "admin"

\* RoleBasedPermission.has_permission for which an empty list allows nobody
RoleBasedPermission_EmptyListDenies(req, view) ==
    req.user.is_authenticated /\ req.user.role \in GetAttr(view, "required_roles", {})

\* required_roles = getattr(view, 'required_roles', []); `not required_roles`
RoleBasedPermission(req, view) ==
    IF ~req.user.is_authenticated
    THEN FALSE
    ELSE LET required_roles == GetAttr(view, "required_roles", {})
         IN  IF required_roles = {}
             THEN TRUE
             ELSE req.user.role \in required_roles

\* MinimumRolePermission.has_permission with > for >=
MinimumRolePermission_Strict(req, view) ==
    IF ~req.user.is_authenticated
    THEN FALSE
    ELSE LET minimum_role == GetAttr(view, "minimum_role", "engineer")
             user_role_level == DictGet(ROLE_HIERARCHY, req.user.role, 0)
             required_role_level == DictGet(ROLE_HIERARCHY, minimum_role, 0)
         IN  user_role_level > required_role_level

\* minimum_role = getattr(view, 'minimum_role', 'engineer')
MinimumRolePermission(req, view) ==
    IF ~req.user.is_authenticated
    THEN FALSE
    ELSE LET minimum_role == GetAttr(view, "minimum_role", "engineer")
             user_role_level == DictGet(ROLE_HIERARCHY, req.user.role, 0)
             required_role_level == DictGet(ROLE_HIERARCHY, minimum_role, 0)
         IN  user_role_level >= required_role_level

\* The permission classes that read nothing of the view.
FixedPermissionClasses ==
    {"IsAdminRole", "IsMetallurgistOrAdmin", "IsEngineerOrAbove", "CanUploadDatasets",
     "CanRunLCA", "CanManageAIModels", "CanViewReports", "CanManageUsers"}

has_permission(class, req, view) ==
    CASE class = "IsAdminRole" -> IsAdminRole(req)
      [] class = "IsMetallurgistOrAdmin" -> IsMetallurgistOrAdmin(req)
      [] class = "IsEngineerOrAbove" -> IsEngineerOrAbove(req)
      [] class = "CanUploadDatasets" -> CanUploadDatasets(req)
      [] class = "CanRunLCA" -> CanRunLCA(req)
      [] class = "CanManageAIModels" -> CanManageAIModels(req)
      [] class = "CanViewReports" -> CanViewReports(req)
      [] class = "CanManageUsers" -> CanManageUsers(req)
      [] class = "RoleBasedPermission" -> RoleBasedPermission(req, view)
      [] class = "MinimumRolePermission" -> MinimumRolePermission(req, view)

---------------------------------------------------------------------------
(* Guard evaluation: one request, one decision.  `request` records the     *)
(* entry point, the principal and the guard's configuration; `response`    *)
(* is what the guard returned.                                             *)

NoRequest == [entry |-> "none"]
NoResponse == [entry |-> "none"]

GuardInit ==
    /\ users = [i \in UserIds |-> "engineer"]
    /\ resources = <<>>
    /\ request = NoRequest
    /\ response = NoResponse

\* a function view decorated with @role_required(*roles)
RoleRequired ==
    \E u \in Principals, L \in RoleLists :
        /\ request' = [entry |-> "role_required", user |-> u, roles |-> L]
        /\ response' = role_required(L, u, HandlerResult)
        /\ UNCHANGED <<users, resources>>

\* a function view decorated with @minimum_role_required(minimum_role)
MinimumRoleRequired ==
    \E u \in Principals, M \in RoleValues :
        /\ request' = [entry |-> "minimum_role_required", user |-> u, minimum_role |-> M]
        /\ response' = minimum_role_required(M, u, HandlerResult)
        /\ UNCHANGED <<users, resources>>

\* a view method decorated with @api_role_required(*roles)
ApiRoleRequired ==
    \E u \in Principals, L \in RoleLists :
        /\ request' = [entry |-> "api_role_required", user |-> u, roles |-> L]
        /\ response' = api_role_required(L, u, HandlerResult)
        /\ UNCHANGED <<users, resources>>

\* a class-based view that inherits RoleBasedViewMixin
MixinDispatch ==
    \E u \in Principals, v \in Views :
        /\ request' = [entry |-> "RoleBasedViewMixin", user |-> u, view |-> v]
        /\ response' = RoleBasedViewMixin_dispatch(v, u, HandlerResult)
        /\ UNCHANGED <<users, resources>>

\* a permission class asked for its decision
CheckPermission ==
    \E u \in Principals, m \in Methods, v \in Views,
       c \in FixedPermissionClasses \cup {"RoleBasedPermission", "MinimumRolePermission"} :
        /\ c \in FixedPermissionClasses => v = NoView
        /\ c = "RoleBasedPermission" => "minimum_role" \notin DOMAIN v
        /\ c = "MinimumRolePermission" => "required_roles" \notin DOMAIN v
        /\ request' = [entry |-> c, user |-> u, method |-> m, view |-> v]
        /\ response' = [allowed |-> has_permission(c, [user |-> u, method |-> m], v)]
        /\ UNCHANGED <<users, resources>>

\* a report asked for on a route guarded by CanViewReports
ViewReport ==
    \E u \in Principals, owner \in UserIds :
        /\ request' = [entry |-> "CanViewReports.object", user |-> u, method |-> "GET",
                       obj |-> [created_by |-> owner]]
        /\ response' = [allowed |->
               CanViewReports_access([user |-> u, method |-> "GET"], [created_by |-> owner])]
        /\ UNCHANGED <<users, resources>>

GuardNext ==
    \/ RoleRequired
    \/ MinimumRoleRequired
    \/ ApiRoleRequired
    \/ MixinDispatch
    \/ CheckPermission
    \/ ViewReport

GuardSpec == GuardInit /\ [][GuardNext]_vars

---------------------------------------------------------------------------
(* views.py: UserManagementView(AdminOnlyMixin, RetrieveUpdateDestroyAPIView) *)
(*                                                                         *)
(* A handler's outcome is its response together with `users`, the user     *)
(* store it leaves; a guard's rejection carries no store: it changed none. *)

\* self.permission_denied(request, message): NotAuthenticated when the request
\* carries no authenticated user, PermissionDenied(message) otherwise; the
\* exception handler answers NotAuthenticated with 401 when the first
\* authentication class has an authenticate header, else with 403.
permission_denied(req, message, authenticate_header) ==
    IF ~req.user.is_authenticated
    THEN Rejection([detail |-> "Authentication credentials were not provided."],
                   IF authenticate_header THEN HTTP_401_UNAUTHORIZED ELSE HTTP_403_FORBIDDEN)
    ELSE Rejection([detail |-> message], HTTP_403_FORBIDDEN)

\* the accounts of the store, as principals
Account(store, id) == User(id, store[id])

\* The request object the framework hands to a handler: it has .user, .method, .path
RequestObject(user, method, target) ==
    [user |-> user, method |-> method, path |-> <<"users", target>>]

\* The view instance (self): it holds the request and the URL's kwargs; it has no
\* attribute `user` and no attribute `path`.
ViewObject(req, target, data) ==
    [request |-> req, kwargs |-> [id |-> target], data |-> data]

\* an exception leaves the handler: no response, the store as it was
Raise(exception, store) == [raised |-> exception, invoked |-> 0, users |-> store]

\* the audit records an outcome carries: those written while it was produced
LogOf(outcome) == IF "log" \in DOMAIN outcome THEN outcome.log ELSE <<>>

\* log_permission_check that finds the request whatever it is called with: the
\* wrapped function always runs
log_permission_check_Bound(name, first, store, result) ==
    [log |-> <<[level |-> "INFO", func |-> name]>>] @@ result

\* decorators.py log_permission_check: wrapper(request, *args, **kwargs) around
\* func.  `first` is the wrapper's first positional argument, which the wrapper
\* names request; `result` is what func(request, *args, **kwargs) gives.  The
\* message of logger.info is built first, and nothing is written when building it
\* fails; the warning is written for a result with status_code 403.
log_permission_check(name, first, store, result) ==
    LET user == GetAttr(first, "user", AnonymousUser)
        user_info == IF user.is_authenticated THEN <<user.id, user.role>> ELSE <<"Anonymous">>
        info == [level |-> "INFO", func |-> name, user |-> user_info,
                 path |-> GetAttr(first, "path", <<>>)]
        warning == [level |-> "WARNING", func |-> name, user |-> user_info]
    IN  IF "path" \notin DOMAIN first
        THEN Raise("AttributeError", store)      \* request.path in the f-string
        ELSE IF "status" \in DOMAIN result /\ result.status = HTTP_403_FORBIDDEN
        THEN [log |-> <<info, warning>>] @@ result
        ELSE [log |-> <<info>>] @@ result

\* views.py UserManagementView.delete (the decorated body)
UserManagementView_delete(store, req, view) ==
    IF view.kwargs.id \notin DOMAIN store
    THEN [status |-> 404, body |-> [detail |-> "Not found."], invoked |-> 1, users |-> store]
    ELSE IF view.kwargs.id = req.user.id        \* self.get_object() == request.user
    THEN [status |-> HTTP_400_BAD_REQUEST,
          body |-> [error |-> "Cannot delete your own account"],
          invoked |-> 1, users |-> store]
    ELSE [status |-> 204, body |-> [detail |-> "deleted"], invoked |-> 1,
          users |-> [i \in DOMAIN store \ {view.kwargs.id} |-> store[i]]]

\* views.py UserManagementView.get (the decorated body): RetrieveAPIView.get
UserManagementView_get(store, req, view) ==
    IF view.kwargs.id \notin DOMAIN store
    THEN [status |-> 404, body |-> [detail |-> "Not found."], invoked |-> 1, users |-> store]
    ELSE [status |-> 200, body |-> [id |-> view.kwargs.id, role |-> store[view.kwargs.id]],
          invoked |-> 1, users |-> store]

\* views.py UserManagementView.put / .patch (the decorated bodies): UpdateAPIView
\* with UserSerializer, whose writable fields include role (a choice of models.py
\* ROLE_CHOICES); data.role is the role the client sent, "" when it sent none.
UserManagementView_update(store, req, view) ==
    IF view.kwargs.id \notin DOMAIN store
    THEN [status |-> 404, body |-> [detail |-> "Not found."], invoked |-> 1, users |-> store]
    ELSE IF view.data.role = ""
    THEN [status |-> 200, body |-> [id |-> view.kwargs.id, role |-> store[view.kwargs.id]],
          invoked |-> 1, users |-> store]
    ELSE IF view.data.role \notin Roles
    THEN [status |-> HTTP_400_BAD_REQUEST, body |-> [role |-> "not a valid choice"],
          invoked |-> 1, users |-> store]
    ELSE [status |-> 200, body |-> [id |-> view.kwargs.id, role |-> view.data.role],
          invoked |-> 1, users |-> [store EXCEPT ![view.kwargs.id] = view.data.role]]

UserManagementMethods == {"GET", "PUT", "PATCH", "DELETE"}

\* The bodies of get, put, patch and delete, as written under the decorator
UserManagementView_body(store, req, view) ==
    CASE req.method = "GET" -> UserManagementView_get(store, req, view)
      [] req.method = "DELETE" -> UserManagementView_delete(store, req, view)
      [] OTHER -> UserManagementView_update(store, req, view)

\* The method the framework looks up on the view, getattr(self, method.lower()):
\* each is the body wrapped by @log_permission_check and is called bound, so the
\* wrapper's first positional argument is the view instance.
UserManagementView_handler(store, req, view) ==
    log_permission_check(req.method, view, store, UserManagementView_body(store, req, view))

\* rest_framework.permissions.IsAuthenticated
IsAuthenticated(req) == req.user.is_authenticated

\* rest_framework APIView.dispatch for permission_classes = [IsAuthenticated,
\* CanManageUsers]: the permission classes, then the handler; an exception that is
\* not an API exception becomes the server's error response.
UserManagementView_super_dispatch(store, req, view) ==
    IF ~IsAuthenticated(req)
    THEN Rejection([detail |-> "Authentication credentials were not provided."],
                   HTTP_401_UNAUTHORIZED)
    ELSE IF ~CanManageUsers(req)
    THEN Rejection([detail |-> "You do not have permission to perform this action."],
                   HTTP_403_FORBIDDEN)
    ELSE LET result == UserManagementView_handler(store, req, view)
         IN  IF "raised" \in DOMAIN result
             THEN [status |-> 500, body |-> [error |-> result.raised],
                   invoked |-> result.invoked, users |-> result.users,
                   log |-> LogOf(result)]
             ELSE result

\* decorators.py MetallurgistOrAdminMixin, in the place of AdminOnlyMixin
AdminOnlyMixin_WithMetallurgist == [required_roles |-> {"metallurgist", "admin"}]

\* decorators.py AdminOnlyMixin
AdminOnlyMixin == [required_roles |-> {"admin"}]

\* UserManagementView with neither guard nor decorator: the bodies alone
UserManagementView_dispatch_Unguarded(store, user, method, target, data) ==
    UserManagementView_body(store, RequestObject(user, method, target),
                            ViewObject(RequestObject(user, method, target), target, data))

\* as_view(): AdminOnlyMixin's dispatch (RoleBasedViewMixin.dispatch) comes first in
\* the MRO and hands over to the framework's dispatch.
UserManagementView_dispatch(store, user, method, target, data) ==
    LET req == RequestObject(user, method, target)
        view == ViewObject(req, target, data)
    IN  RoleBasedViewMixin_dispatch(AdminOnlyMixin, user,
            UserManagementView_super_dispatch(store, req, view))

\* the response of an outcome, and the store it leaves
ResponseOf(outcome) == [k \in DOMAIN outcome \ {"users", "resources"} |-> outcome[k]]

\* views.py logout: @api_view(['POST']), @permission_classes([IsAuthenticated]),
\* @log_permission_check.  The view class built by api_view checks the permission
\* classes and then calls the decorated function with the request.
logout(store, req, authenticate_header) ==
    IF ~IsAuthenticated(req)
    THEN permission_denied(req, "Authentication credentials were not provided.",
                           authenticate_header)
    ELSE log_permission_check("logout", req, store,
             [status |-> 200, body |-> [message |-> "Logout successful"], invoked |-> 1,
              users |-> store])
StoreOf(outcome, store) == IF "users" \in DOMAIN outcome THEN outcome.users ELSE store

\* one account id beyond the store, for a lookup that finds nothing
TargetIds == 1..(NumUsers + 1)

UserInit ==
    /\ users \in [UserIds -> RoleValues]
    /\ resources = <<>>
    /\ request = NoRequest
    /\ response = NoResponse

\* a request to users/<int:id>/ by an account of the store or by nobody
UserManagement ==
    \E u \in {AnonymousUser} \cup {Account(users, i) : i \in DOMAIN users},
       m \in UserManagementMethods, t \in TargetIds, r \in Roles \cup {""} :
        LET outcome == UserManagementView_dispatch(users, u, m, t, [role |-> r])
        IN  /\ m \in {"GET", "DELETE"} => r = ""
            /\ request' = [entry |-> "UserManagementView", user |-> u, method |-> m,
                           target |-> t, data |-> [role |-> r]]
            /\ response' = [log |-> LogOf(outcome)] @@ ResponseOf(outcome)
            /\ users' = StoreOf(outcome, users)
            /\ UNCHANGED resources

\* a POST to logout/ by an account of the store or by nobody
Logout ==
    \E u \in {AnonymousUser} \cup {Account(users, i) : i \in DOMAIN users},
       authenticate_header \in BOOLEAN :
        LET outcome == logout(users, [user |-> u, method |-> "POST", path |-> <<"logout">>],
                              authenticate_header)
        IN  /\ request' = [entry |-> "logout", user |-> u, method |-> "POST",
                           path |-> <<"logout">>]
            /\ response' = [log |-> LogOf(outcome)] @@ ResponseOf(outcome)
            /\ users' = StoreOf(outcome, users)
            /\ UNCHANGED resources

UserNext ==
    \/ UserManagement
    \/ Logout

UserSpec == UserInit /\ [][UserNext]_vars

---------------------------------------------------------------------------
(* views.py: the other endpoints of urls.py.  The store starts empty and   *)
(* registration fills it.                                                  *)

\* who may send a request: nobody, or an account of the store
Requesters(store) == {AnonymousUser} \cup {Account(store, i) : i \in DOMAIN store}

\* the id the store gives the next account
NextAccountId(store) ==
    IF DOMAIN store = {}
    THEN 1
    ELSE (CHOOSE i \in DOMAIN store : \A j \in DOMAIN store : j <= i) + 1

\* User.objects.create_user(**validated_data)
create_user(store, role) ==
    [i \in DOMAIN store \cup {NextAccountId(store)} |->
        IF i \in DOMAIN store THEN store[i] ELSE role]

\* the roles a client may put in a request: none (""), one of ROLE_CHOICES, or
\* something else
SentRoles == Roles \cup {"", UnrecognizedRole}

\* serializers.py RegisterSerializer / UserRegistrationSerializer, is_valid() and
\* save(): role is a writable field of the model serializer, a choice of
\* ROLE_CHOICES with the model's default 'engineer'.
RegisterSerializer_save(store, data) ==
    IF data.role # "" /\ data.role \notin Roles
    THEN [status |-> HTTP_400_BAD_REQUEST, body |-> [role |-> "not a valid choice"],
          invoked |-> 1, users |-> store]
    ELSE LET role == IF data.role = "" THEN "engineer" ELSE data.role
         IN  [status |-> 201, body |-> [id |-> NextAccountId(store), role |-> role],
              invoked |-> 1, users |-> create_user(store, role)]

\* views.py RegisterView.post: CreateAPIView with permission_classes = [AllowAny]
RegisterView_post(store, req, data) == RegisterSerializer_save(store, data)

\* views.py register: @api_view(['POST']), AllowAny, @log_permission_check
register(store, req, data) ==
    log_permission_check("register", req, store, RegisterSerializer_save(store, data))

\* views.py login: credentials name an account of the store, or are wrong (0)
login(store, req, credentials) ==
    log_permission_check("login", req, store,
        IF credentials \in DOMAIN store
        THEN [status |-> 200,
              body |-> [message |-> "Login successful",
                        user |-> [id |-> credentials, role |-> store[credentials]]],
              invoked |-> 1, users |-> store]
        ELSE [status |-> HTTP_400_BAD_REQUEST,
              body |-> [non_field_errors |-> "Unable to log in with provided credentials."],
              invoked |-> 1, users |-> store])

\* views.py change_password: IsAuthenticated, @log_permission_check; the password
\* is no part of the store
change_password(store, req, valid, authenticate_header) ==
    IF ~IsAuthenticated(req)
    THEN permission_denied(req, "Authentication credentials were not provided.",
                           authenticate_header)
    ELSE log_permission_check("change_password", req, store,
             IF valid
             THEN [status |-> 200, body |-> [message |-> "Password changed successfully"],
                   invoked |-> 1, users |-> store]
             ELSE [status |-> HTTP_400_BAD_REQUEST,
                   body |-> [old_password |-> "Old password is incorrect."],
                   invoked |-> 1, users |-> store])

\* an exception that is no API exception leaves the view: the server's error response
ServerError(result) ==
    [status |-> 500, body |-> [error |-> result.raised], invoked |-> result.invoked,
     users |-> result.users, log |-> LogOf(result)]

\* views.py ProfileView.get_permissions.  OwnershipMixin() | IsAdminRole(): neither
\* instance defines the operator (rest_framework defines it on permission classes),
\* so the expression raises TypeError.
ProfileView_get_permissions(method) ==
    IF method \in {"PUT", "PATCH"}
    THEN [raised |-> "TypeError"]
    ELSE [classes |-> <<"IsAuthenticated">>]

\* UpdateAPIView with a serializer whose writable fields include role: the update
\* of the requester's own account
UpdateOwnAccount(store, req, data) ==
    IF data.role = ""
    THEN [status |-> 200, body |-> [id |-> req.user.id, role |-> store[req.user.id]],
          invoked |-> 1, users |-> store]
    ELSE IF data.role \notin Roles
    THEN [status |-> HTTP_400_BAD_REQUEST, body |-> [role |-> "not a valid choice"],
          invoked |-> 1, users |-> store]
    ELSE [status |-> 200, body |-> [id |-> req.user.id, role |-> data.role],
          invoked |-> 1, users |-> [store EXCEPT ![req.user.id] = data.role]]

\* views.py ProfileView (RetrieveUpdateAPIView, get_object() is request.user):
\* initial() asks get_permissions() for the permission instances, checks them, and
\* the handler follows.
ProfileView_dispatch(store, req, data, authenticate_header) ==
    LET perms == ProfileView_get_permissions(req.method)
    IN  IF "raised" \in DOMAIN perms
        THEN ServerError(Raise(perms.raised, store))
        ELSE IF ~IsAuthenticated(req)
        THEN permission_denied(req, "Authentication credentials were not provided.",
                               authenticate_header)
        ELSE IF req.method = "GET"
        THEN [status |-> 200, body |-> [id |-> req.user.id, role |-> store[req.user.id]],
              invoked |-> 1, users |-> store]
        ELSE UpdateOwnAccount(store, req, data)

\* views.py UserUpdateView (UpdateAPIView, IsAuthenticated): put and patch call
\* self.update, the body wrapped by @log_permission_check and called bound.
UserUpdateView_dispatch(store, req, data, authenticate_header) ==
    IF ~IsAuthenticated(req)
    THEN permission_denied(req, "Authentication credentials were not provided.",
                           authenticate_header)
    ELSE LET view == ViewObject(req, req.user.id, data)
             result == log_permission_check("update", view, store,
                                            UpdateOwnAccount(store, req, data))
         IN  IF "raised" \in DOMAIN result THEN ServerError(result) ELSE result

\* the accounts in the order of order_by('-date_joined'): the newest first
NewestFirst(store, ids) ==
    LET n == Cardinality(ids)
        Nth[k \in 0..n] ==
            IF k = 0 THEN <<>>
            ELSE LET taken == {Nth[k - 1][j].id : j \in 1..(k - 1)}
                     i == CHOOSE i \in ids \ taken : \A j \in ids \ taken : j <= i
                 IN  Append(Nth[k - 1], [id |-> i, role |-> store[i]])
    IN  Nth[n]

\* views.py UserListView.get_queryset and ListAPIView.get
UserListView_get(store, role) ==
    LET ids == IF role # "" /\ role \in Roles
               THEN {i \in DOMAIN store : store[i] = role}
               ELSE DOMAIN store
    IN  [status |-> 200, body |-> NewestFirst(store, ids), invoked |-> 1, users |-> store]

\* UserListView without AdminOnlyMixin: the permission classes alone
UserListView_dispatch_PermissionClassesOnly(store, req, role) ==
    IF ~IsAuthenticated(req)
    THEN Rejection([detail |-> "Authentication credentials were not provided."],
                   HTTP_401_UNAUTHORIZED)
    ELSE IF ~CanManageUsers(req)
    THEN Rejection([detail |-> "You do not have permission to perform this action."],
                   HTTP_403_FORBIDDEN)
    ELSE UserListView_get(store, role)

\* views.py UserListView: AdminOnlyMixin's dispatch, then the framework's with
\* permission_classes = [IsAuthenticated, CanManageUsers]
UserListView_dispatch(store, req, role) ==
    RoleBasedViewMixin_dispatch(AdminOnlyMixin, req.user,
        IF ~IsAuthenticated(req)
        THEN Rejection([detail |-> "Authentication credentials were not provided."],
                       HTTP_401_UNAUTHORIZED)
        ELSE IF ~CanManageUsers(req)
        THEN Rejection([detail |-> "You do not have permission to perform this action."],
                       HTTP_403_FORBIDDEN)
        ELSE UserListView_get(store, role))

\* views.py test_permissions: @api_view(['GET']), IsAuthenticated.  Each entry of
\* 'permissions' is has_permission(request, None) of a permission class, asked with
\* the request of this endpoint, whose method is GET.
test_permissions(store, req, authenticate_header) ==
    IF ~IsAuthenticated(req)
    THEN permission_denied(req, "Authentication credentials were not provided.",
                           authenticate_header)
    ELSE LET role == req.user.role
         IN  [status |-> 200, invoked |-> 1, users |-> store,
              body |->
                [user |-> [id |-> req.user.id, role |-> role,
                           is_admin_role |-> role = "admin",
                           is_metallurgist |-> role = "metallurgist",
                           is_engineer |-> role = "engineer"],
                 permissions |->
                   [can_manage_users |-> CanManageUsers(req),
                    can_upload_datasets |-> CanUploadDatasets(req),
                    can_manage_ai_models |-> CanManageAIModels(req),
                    can_view_reports |-> CanViewReports(req),
                    is_admin |-> IsAdminRole(req),
                    is_engineer_or_above |-> IsEngineerOrAbove(req)],
                 capabilities |->
                   [admin |->
                      [manage_users |-> role = "admin",
                       upload_datasets |-> role = "admin",
                       manage_ai_models |-> role = "admin",
                       view_reports |-> role = "admin",
                       run_lca |-> role = "admin"],
                    metallurgist |->
                      [manage_users |-> FALSE,
                       upload_datasets |-> role \in {"metallurgist", "admin"},
                       manage_ai_models |-> role \in {"metallurgist", "admin"},
                       view_reports |-> role \in {"metallurgist", "admin"},
                       run_lca |-> role \in {"metallurgist", "admin"}],
                    engineer |->
                      [manage_users |-> FALSE,
                       upload_datasets |-> FALSE,
                       manage_ai_models |-> FALSE,
                       view_reports |-> role \in {"engineer", "metallurgist", "admin"},
                       run_lca |-> role \in {"engineer", "metallurgist", "admin"}]]]]

AccountInit ==
    /\ users = <<>>
    /\ resources = <<>>
    /\ request = NoRequest
    /\ response = NoResponse

\* the state after a request: what was asked, what was answered, the store left
Served(entry, u, method, data, outcome) ==
    /\ request' = [entry |-> entry, user |-> u, method |-> method, data |-> data]
    /\ response' = [log |-> LogOf(outcome)] @@ ResponseOf(outcome)
    /\ users' = StoreOf(outcome, users)
    /\ UNCHANGED resources

\* POST register/
Register ==
    \E u \in Requesters(users), r \in SentRoles :
        /\ Cardinality(DOMAIN users) < NumUsers
        /\ Served("RegisterView", u, "POST", [role |-> r],
                  RegisterView_post(users, [user |-> u, method |-> "POST",
                                            path |-> <<"register">>], [role |-> r]))

\* POST register-alt/
RegisterAlt ==
    \E u \in Requesters(users), r \in SentRoles :
        /\ Cardinality(DOMAIN users) < NumUsers
        /\ Served("register", u, "POST", [role |-> r],
                  register(users, [user |-> u, method |-> "POST",
                                   path |-> <<"register-alt">>], [role |-> r]))

\* POST login-alt/
Login ==
    \E u \in Requesters(users), credentials \in 0..NumUsers :
        Served("login", u, "POST", [credentials |-> credentials],
               login(users, [user |-> u, method |-> "POST", path |-> <<"login-alt">>],
                     credentials))

\* POST change-password/
ChangePassword ==
    \E u \in Requesters(users), valid \in BOOLEAN, authenticate_header \in BOOLEAN :
        Served("change_password", u, "POST", [valid |-> valid],
               change_password(users, [user |-> u, method |-> "POST",
                                       path |-> <<"change-password">>],
                               valid, authenticate_header))

\* GET, PUT or PATCH profile/
Profile ==
    \E u \in Requesters(users), m \in {"GET", "PUT", "PATCH"}, r \in SentRoles,
       authenticate_header \in BOOLEAN :
        /\ m = "GET" => r = ""
        /\ Served("ProfileView", u, m, [role |-> r],
                  ProfileView_dispatch(users, [user |-> u, method |-> m,
                                               path |-> <<"profile">>],
                                       [role |-> r], authenticate_header))

\* PUT or PATCH profile/update/
ProfileUpdate ==
    \E u \in Requesters(users), m \in {"PUT", "PATCH"}, r \in SentRoles,
       authenticate_header \in BOOLEAN :
        Served("UserUpdateView", u, m, [role |-> r],
               UserUpdateView_dispatch(users, [user |-> u, method |-> m,
                                               path |-> <<"profile", "update">>],
                                       [role |-> r], authenticate_header))

\* GET users/, with the query parameter role ("" for none)
UserList ==
    \E u \in Requesters(users), r \in SentRoles :
        Served("UserListView", u, "GET", [role |-> r],
               UserListView_dispatch(users, [user |-> u, method |-> "GET",
                                             path |-> <<"users">>], r))

\* GET test-permissions/
TestPermissions ==
    \E u \in Requesters(users), authenticate_header \in BOOLEAN :
        Served("test_permissions", u, "GET", <<>>,
               test_permissions(users, [user |-> u, method |-> "GET",
                                        path |-> <<"test-permissions">>],
                                authenticate_header))

AccountNext ==
    \/ Register
    \/ RegisterAlt
    \/ Login
    \/ Logout
    \/ ChangePassword
    \/ Profile
    \/ ProfileUpdate
    \/ UserManagement
    \/ UserList
    \/ TestPermissions

AccountSpec == AccountInit /\ [][AccountNext]_vars

---------------------------------------------------------------------------
(* decorators.py: OwnershipMixin (ownership_field = 'created_by')          *)
(*                                                                         *)
(* A queryset is the sequence of its rows; a row is [id, created_by,       *)
(* category], created_by being the owner's account id.                     *)

Categories == {"report", "dataset"}

PageSize == 1

\* an owner filter that loses the first matching row
FilterByOwner_SkipsFirst(queryset, user) ==
    LET owned == SelectSeq(queryset, LAMBDA row : row.created_by = user.id)
    IN  IF owned = <<>> THEN owned ELSE Tail(owned)

\* queryset.filter(created_by=user)
FilterByOwner(queryset, user) ==
    SelectSeq(queryset, LAMBDA row : row.created_by = user.id)

\* queryset.reverse()
Reversed(queryset) == [i \in 1..Len(queryset) |-> queryset[Len(queryset) + 1 - i]]

\* OwnershipMixin.get_queryset in which the admin's listing is put newest first
OwnershipMixin_get_queryset_NewestFirst(queryset, user) ==
    IF ~user.is_authenticated
    THEN <<>>
    ELSE IF user.role = "admin"
    THEN Reversed(queryset)
    ELSE FilterByOwner(queryset, user)

\* OwnershipMixin.get_queryset that forgets the owner filter
OwnershipMixin_get_queryset_Unfiltered(queryset, user) ==
    IF ~user.is_authenticated
    THEN <<>>
    ELSE queryset

\* OwnershipMixin.get_queryset; queryset is super().get_queryset()
OwnershipMixin_get_queryset(queryset, user) ==
    IF ~user.is_authenticated
    THEN <<>>                                   \* queryset.none()
    ELSE IF user.role = "admin"
    THEN queryset
    ELSE FilterByOwner(queryset, user)

\* {**kwargs, **validated_data}: the client's values win
SerializerSave_ClientWins(validated_data, kwargs) ==
    [k \in DOMAIN validated_data \cup DOMAIN kwargs |->
        IF k \in DOMAIN validated_data THEN validated_data[k] ELSE kwargs[k]]

\* serializer.save(**kwargs): the row is built from {**validated_data, **kwargs}
SerializerSave(validated_data, kwargs) ==
    [k \in DOMAIN validated_data \cup DOMAIN kwargs |->
        IF k \in DOMAIN kwargs THEN kwargs[k] ELSE validated_data[k]]

\* OwnershipMixin.perform_create that sets the owner only when the client sent none
OwnershipMixin_perform_create_KeepsClientOwner(validated_data, user) ==
    SerializerSave_ClientWins(validated_data, [created_by |-> user.id])

\* OwnershipMixin.perform_create: serializer.save(created_by=self.request.user);
\* gives the row to insert
OwnershipMixin_perform_create(validated_data, user) ==
    SerializerSave(validated_data, [created_by |-> user.id])

\* a further filter of the listing (a query parameter), "" for none
FilterByCategory(queryset, category) ==
    IF category = ""
    THEN queryset
    ELSE SelectSeq(queryset, LAMBDA row : row.category = category)

\* one page of a listing
Paginate(queryset, page) ==
    SubSeq(queryset, (page - 1) * PageSize + 1,
           IF page * PageSize < Len(queryset) THEN page * PageSize ELSE Len(queryset))

\* what the client may send on create: a category, and possibly an owner
CreateData ==
    {[category |-> c] : c \in Categories}
    \cup {[category |-> c, created_by |-> o] : c \in Categories, o \in UserIds}

\* the id the store gives the next row: one more than the largest in use
NextId(queryset) ==
    IF queryset = <<>> THEN 1 ELSE queryset[Len(queryset)].id + 1

\* OwnershipMixin reads of a role only whether it is 'admin'
OwnershipInit ==
    /\ users \in [UserIds -> {"engineer", "admin"}]
    /\ resources = <<>>
    /\ request = NoRequest
    /\ response = NoResponse

\* create on a view with OwnershipMixin.  The owner column holds an account: with
\* the anonymous user the assignment fails and nothing is stored.
Create ==
    \E u \in {AnonymousUser} \cup {Account(users, i) : i \in DOMAIN users},
       data \in CreateData :
        /\ NextId(resources) <= MaxResources
        /\ request' = [entry |-> "perform_create", user |-> u, data |-> data]
        /\ IF u.is_authenticated
           THEN LET row == [id |-> NextId(resources)] @@ OwnershipMixin_perform_create(data, u)
                IN  /\ resources' = Append(resources, row)
                    /\ response' = [status |-> 201, created |-> row]
           ELSE /\ resources' = resources
                /\ response' = [status |-> 500, body |-> [error |-> "ValueError"]]
        /\ UNCHANGED users

\* get_queryset on a view with OwnershipMixin
GetQueryset ==
    \E u \in {AnonymousUser} \cup {Account(users, i) : i \in DOMAIN users} :
        /\ request' = [entry |-> "get_queryset", user |-> u]
        /\ response' = [result |-> OwnershipMixin_get_queryset(resources, u)]
        /\ UNCHANGED <<users, resources>>

\* list on a view with OwnershipMixin: get_queryset, then a filter, then a page
List ==
    \E u \in {AnonymousUser} \cup {Account(users, i) : i \in DOMAIN users},
       c \in Categories \cup {""}, page \in 1..MaxResources :
        /\ request' = [entry |-> "list", user |-> u, category |-> c, page |-> page]
        /\ response' = [result |->
               Paginate(FilterByCategory(OwnershipMixin_get_queryset(resources, u), c), page)]
        /\ UNCHANGED <<users, resources>>

OwnershipNext ==
    \/ Create
    \/ GetQueryset
    \/ List

OwnershipSpec == OwnershipInit /\ [][OwnershipNext]_vars

\* get_object() of a detail route: the row with that id among get_queryset(), or
\* nothing (a 404)
GetObject(queryset, user, id) ==
    SelectSeq(OwnershipMixin_get_queryset(queryset, user), LAMBDA row : row.id = id)

\* what the client may send on update: the fields of the serializer, any of them
UpdateData == CreateData \cup {[created_by |-> o] : o \in UserIds}

\* update on a view with OwnershipMixin.  The mixin overrides perform_create only:
\* perform_update is the framework's serializer.save(), which writes the validated
\* fields of the request onto the row get_object() found.
Update ==
    \E u \in {AnonymousUser} \cup {Account(users, i) : i \in DOMAIN users},
       id \in 1..MaxResources, data \in UpdateData :
        /\ request' = [entry |-> "perform_update", user |-> u, id |-> id, data |-> data]
        /\ IF GetObject(resources, u, id) = <<>>
           THEN /\ resources' = resources
                /\ response' = [status |-> 404]
           ELSE LET row == SerializerSave(GetObject(resources, u, id)[1], data)
                IN  /\ resources' = [i \in 1..Len(resources) |->
                                        IF resources[i].id = id THEN row ELSE resources[i]]
                    /\ response' = [status |-> 200, updated |-> row]
        /\ UNCHANGED users

\* destroy on a view with OwnershipMixin: the row get_object() found is deleted
Delete ==
    \E u \in {AnonymousUser} \cup {Account(users, i) : i \in DOMAIN users},
       id \in 1..MaxResources :
        /\ request' = [entry |-> "perform_destroy", user |-> u, id |-> id]
        /\ IF GetObject(resources, u, id) = <<>>
           THEN /\ resources' = resources
                /\ response' = [status |-> 404]
           ELSE /\ resources' = SelectSeq(resources, LAMBDA row : row.id # id)
                /\ response' = [status |-> 204]
        /\ UNCHANGED users

LifecycleNext ==
    \/ Create
    \/ GetQueryset
    \/ List
    \/ Update
    \/ Delete

\* create, list, update and delete on a view with OwnershipMixin
LifecycleSpec == OwnershipInit /\ [][LifecycleNext]_vars

---------------------------------------------------------------------------
(* Guards in front of a handler that writes.  The handler's outcome carries *)
(* the rows it leaves (`resources`); a guard's own response carries none,   *)
(* and the rows stay as they were.                                          *)

\* a role_permissions table in which create is given to the engineer and not to the
\* metallurgist
role_permissions_EngineerCreates ==
    [list |-> {"engineer", "metallurgist", "admin"},
     retrieve |-> {"engineer", "metallurgist", "admin"},
     create |-> {"engineer", "admin"},
     update |-> {"metallurgist", "admin"},
     partial_update |-> {"metallurgist", "admin"},
     destroy |-> {"admin"}]

\* decorators.py RoleBasedModelViewSet.role_permissions
role_permissions ==
    [list |-> {"engineer", "metallurgist", "admin"},
     retrieve |-> {"engineer", "metallurgist", "admin"},
     create |-> {"metallurgist", "admin"},
     update |-> {"metallurgist", "admin"},
     partial_update |-> {"metallurgist", "admin"},
     destroy |-> {"admin"}]

\* self.action is None when the router maps the request's method to no action
NoAction == "None"

\* the actions of a viewset: the six of ModelViewSet, one declared with @action,
\* and none
ViewSetActions == DOMAIN role_permissions \cup {"export", NoAction}

\* The rows after a request
QuerysetOf(outcome, queryset) ==
    IF "resources" \in DOMAIN outcome THEN outcome.resources ELSE queryset

\* RoleBasedModelViewSet.check_permissions: the message of the denial, or <<>>
\* when the method returns
RoleBasedModelViewSet_check_permissions(req, action) ==
    IF ~req.user.is_authenticated
    THEN <<"Authentication required">>
    ELSE LET act == IF action = NoAction THEN "list" ELSE action
             required_roles == DictGet(role_permissions, act, {"admin"})
         IN  IF req.user.role \notin required_roles
             THEN <<"Role", req.user.role, "not allowed for action", act>>
             ELSE <<>>

\* The handler of a ModelViewSet action (mixins of rest_framework): what it
\* answers and the rows it leaves
ModelViewSet_handler(queryset, action, id, data) ==
    LET found == SelectSeq(queryset, LAMBDA row : row.id = id)
        NotFound == [status |-> 404, body |-> [detail |-> "Not found."], invoked |-> 1,
                     resources |-> queryset]
    IN  CASE action = "list" ->
                [status |-> 200, body |-> queryset, invoked |-> 1, resources |-> queryset]
          [] action = "create" ->
                LET row == [id |-> NextId(queryset)] @@ data
                IN  [status |-> 201, body |-> row, invoked |-> 1,
                     resources |-> Append(queryset, row)]
          [] action = "retrieve" ->
                IF found = <<>> THEN NotFound
                ELSE [status |-> 200, body |-> found[1], invoked |-> 1, resources |-> queryset]
          [] action \in {"update", "partial_update"} ->
                IF found = <<>> THEN NotFound
                ELSE LET row == SerializerSave(found[1], data)
                     IN  [status |-> 200, body |-> row, invoked |-> 1,
                          resources |-> [i \in 1..Len(queryset) |->
                              IF queryset[i].id = id THEN row ELSE queryset[i]]]
          [] action = "destroy" ->
                IF found = <<>> THEN NotFound
                ELSE [status |-> 204, body |-> <<>>, invoked |-> 1,
                      resources |-> SelectSeq(queryset, LAMBDA row : row.id # id)]
          [] action = NoAction ->
                [status |-> 405, body |-> [detail |-> "Method not allowed."], invoked |-> 1,
                 resources |-> queryset]
          [] OTHER ->
                [status |-> 200, body |-> [detail |-> action], invoked |-> 1,
                 resources |-> queryset]

\* RoleBasedModelViewSet_dispatch for which the rows at hand decide on create
RoleBasedModelViewSet_dispatch_Quota(queryset, req, action, id, data, authenticate_header) ==
    IF action = "create" /\ queryset # <<>>
    THEN Rejection([detail |-> "quota"], HTTP_403_FORBIDDEN)
    ELSE IF RoleBasedModelViewSet_check_permissions(req, action) # <<>>
    THEN permission_denied(req, RoleBasedModelViewSet_check_permissions(req, action),
                           authenticate_header)
    ELSE ModelViewSet_handler(queryset, action, id, data)

\* a viewset whose handler has run by the time check_permissions is asked
RoleBasedModelViewSet_dispatch_ChecksAfter(queryset, req, action, id, data, authenticate_header) ==
    LET denial == RoleBasedModelViewSet_check_permissions(req, action)
        result == ModelViewSet_handler(queryset, action, id, data)
    IN  IF denial # <<>>
        THEN [k \in {"status", "body", "invoked", "resources"} |->
                 IF k = "resources"
                 THEN result.resources
                 ELSE permission_denied(req, denial, authenticate_header)[k]]
        ELSE result

\* APIView.dispatch of a RoleBasedModelViewSet: initial() calls check_permissions,
\* whose permission_denied raises before the handler is looked up and called
RoleBasedModelViewSet_dispatch(queryset, req, action, id, data, authenticate_header) ==
    LET denial == RoleBasedModelViewSet_check_permissions(req, action)
    IN  IF denial # <<>>
        THEN permission_denied(req, denial, authenticate_header)
        ELSE ModelViewSet_handler(queryset, action, id, data)

\* A handler behind a route guard: it stores one report for the caller.
CreateReport(queryset, user) ==
    LET row == [id |-> NextId(queryset), created_by |-> user.id, category |-> "report"]
    IN  [status |-> 201, body |-> row, invoked |-> 1, resources |-> Append(queryset, row)]

RouteGuards ==
    {"role_required", "minimum_role_required", "api_role_required", "RoleBasedViewMixin"}

\* the configurations a route guard takes
GuardConfigurations(guard) ==
    CASE guard \in {"role_required", "api_role_required"} -> RoleLists
      [] guard = "minimum_role_required" -> RoleValues
      [] guard = "RoleBasedViewMixin" ->
            {v \in Views : DOMAIN v # {"required_roles", "minimum_role"}}

\* the guard's outcome for a principal, in front of a handler's outcome
Guarded(guard, config, user, view_func) ==
    CASE guard = "role_required" -> role_required(config, user, view_func)
      [] guard = "api_role_required" -> api_role_required(config, user, view_func)
      [] guard = "minimum_role_required" -> minimum_role_required(config, user, view_func)
      [] guard = "RoleBasedViewMixin" -> RoleBasedViewMixin_dispatch(config, user, view_func)

\* a request to a guarded view whose handler stores a report
GuardedCreate ==
    \E g \in RouteGuards, u \in Principals :
        \E config \in GuardConfigurations(g) :
            LET outcome == Guarded(g, config, u, CreateReport(resources, u))
            IN  /\ NextId(resources) <= MaxResources
                /\ request' = [entry |-> g, user |-> u, config |-> config]
                /\ response' = ResponseOf(outcome)
                /\ resources' = QuerysetOf(outcome, resources)
                /\ UNCHANGED users

\* what a client sends to a viewset action
ViewSetData == {[category |-> c, created_by |-> 1] : c \in Categories}

\* a request to an action of a RoleBasedModelViewSet; the id is that of the URL of
\* a detail route, the data that of a writing action
ViewSetRequest ==
    \E u \in Principals, action \in ViewSetActions, id \in 1..MaxResources,
       data \in ViewSetData, authenticate_header \in BOOLEAN :
        LET req == [user |-> u, method |-> action]
            outcome == RoleBasedModelViewSet_dispatch(resources, req, action, id, data,
                                                      authenticate_header)
        IN  /\ action = "create" => NextId(resources) <= MaxResources
            /\ action \notin {"retrieve", "update", "partial_update", "destroy"} => id = 1
            /\ action \notin {"create", "update", "partial_update"} => data.category = "report"
            /\ request' = [entry |-> "RoleBasedModelViewSet", user |-> u, action |-> action,
                           id |-> id, data |-> data]
            /\ response' = ResponseOf(outcome)
            /\ resources' = QuerysetOf(outcome, resources)
            /\ UNCHANGED users

DispatchNext ==
    \/ GuardedCreate
    \/ ViewSetRequest

DispatchSpec == GuardInit /\ [][DispatchNext]_vars

---------------------------------------------------------------------------
(* One evaluation observed while other requests go on.  `request` is the    *)
(* evaluation observed and `response` its decision; the requests in between *)
(* write rows and leave both alone.                                         *)

\* a safe method and a write
EvaluatedMethods == {"GET", "POST"}

\* the view of a class that reads its view, and the argument of a route guard
EvaluatedView(class) ==
    CASE class = "RoleBasedPermission" -> [required_roles |-> {"metallurgist", "admin"}]
      [] class = "MinimumRolePermission" -> [minimum_role |-> "metallurgist"]
      [] class = "RoleBasedViewMixin" -> [required_roles |-> {"metallurgist", "admin"}]
      [] class = "minimum_role_required" -> "metallurgist"
      [] class \in {"role_required", "api_role_required"} -> {"metallurgist", "admin"}
      [] OTHER -> NoView

\* what is evaluated: the guard or class, the principal, and the method, the action
\* or the resource's owner
Evaluations ==
    {[kind |-> "permission", class |-> c, user |-> u, method |-> m] :
        c \in FixedPermissionClasses \cup {"RoleBasedPermission", "MinimumRolePermission"},
        u \in Principals, m \in EvaluatedMethods}
    \cup {[kind |-> "object", class |-> "CanViewReports", user |-> u, owner |-> o] :
        u \in Principals, o \in UserIds}
    \cup {[kind |-> "guard", class |-> g, user |-> u] : g \in RouteGuards, u \in Principals}
    \cup {[kind |-> "viewset", class |-> "RoleBasedModelViewSet", user |-> u, action |-> a] :
        u \in Principals, a \in ViewSetActions}

\* the decision of an evaluation made with the rows as they are: TRUE for allow
Decide(e, queryset) ==
    CASE e.kind = "permission" ->
            has_permission(e.class, [user |-> e.user, method |-> e.method],
                           EvaluatedView(e.class))
      [] e.kind = "object" ->
            CanViewReports_access([user |-> e.user, method |-> "GET"],
                                  [created_by |-> e.owner])
      [] e.kind = "guard" ->
            Guarded(e.class, EvaluatedView(e.class), e.user, HandlerResult).invoked = 1
      [] e.kind = "viewset" ->
            RoleBasedModelViewSet_dispatch(queryset, [user |-> e.user, method |-> e.action],
                e.action, 1, [category |-> "report", created_by |-> 1], TRUE).invoked = 1

\* an evaluation; it writes nothing
Evaluate ==
    \E e \in Evaluations :
        /\ request' = [entry |-> "evaluate", evaluation |-> e]
        /\ response' = [allowed |-> Decide(e, resources)]
        /\ UNCHANGED <<users, resources>>

\* a request to the viewset in between: its handler may write rows
Between ==
    \E u \in Principals, action \in ViewSetActions, id \in 1..MaxResources,
       data \in ViewSetData :
        LET outcome == RoleBasedModelViewSet_dispatch(resources,
                           [user |-> u, method |-> action], action, id, data, TRUE)
        IN  /\ action = "create" => NextId(resources) <= MaxResources
            /\ resources' = QuerysetOf(outcome, resources)
            /\ UNCHANGED <<users, request, response>>

StatelessNext ==
    \/ Evaluate
    \/ Between

StatelessSpec == GuardInit /\ [][StatelessNext]_vars

---------------------------------------------------------------------------
(* Reading a guard's decision off the state *)

Authenticated == "user" \in DOMAIN request /\ request.user.is_authenticated

Unauthenticated == "user" \in DOMAIN request /\ ~request.user.is_authenticated

\* a permission class answered, or a route guard returned
IsPermissionCheck == "allowed" \in DOMAIN response

IsRouteGuard ==
    request.entry \in {"role_required", "minimum_role_required",
                       "api_role_required", "RoleBasedViewMixin"}

\* Allow: the permission class said yes, or the guard passed control to the handler.
Allowed == IF IsPermissionCheck THEN response.allowed ELSE response.invoked = 1

\* the guard is an allow-list guard configured with a role list and nothing else
IsAllowListRequest ==
    \/ request.entry \in {"role_required", "api_role_required"}
    \/ /\ request.entry \in {"RoleBasedViewMixin", "RoleBasedPermission"}
       /\ DOMAIN request.view = {"required_roles"}

ConfiguredRoles ==
    IF "roles" \in DOMAIN request THEN request.roles ELSE request.view.required_roles

\* the guard is a minimum-role guard configured with a threshold and nothing else
IsMinimumRoleRequest ==
    \/ request.entry = "minimum_role_required"
    \/ /\ request.entry \in {"RoleBasedViewMixin", "MinimumRolePermission"}
       /\ DOMAIN request.view = {"minimum_role"}

ConfiguredMinimum ==
    IF "minimum_role" \in DOMAIN request
    THEN request.minimum_role
    ELSE request.view.minimum_role

---------------------------------------------------------------------------
(* C1 *)

\* C1 (as stated): for an authenticated principal with a role R of the closed set,
\* an allow-list guard configured with role list L allows iff R is in L, for every
\* L, the empty list included.
C1_AllowIffInList ==
    (IsAllowListRequest /\ Authenticated /\ request.user.role \in Roles)
        => (Allowed <=> request.user.role \in ConfiguredRoles)

\* C1 (amended): for an authenticated principal with a role R of the closed set, an
\* allow-list guard configured with a non-empty role list L allows iff R is in L;
\* with the empty list role_required and api_role_required deny, while
\* RoleBasedViewMixin and RoleBasedPermission allow.
C1_AllowIffInNonEmptyList ==
    (IsAllowListRequest /\ Authenticated /\ request.user.role \in Roles)
        => IF ConfiguredRoles # {}
           THEN Allowed <=> request.user.role \in ConfiguredRoles
           ELSE Allowed <=> request.entry \in {"RoleBasedViewMixin", "RoleBasedPermission"}

\* an engineer passes a RoleBasedViewMixin view whose required_roles is []
C1_Witness ==
    /\ request.entry = "RoleBasedViewMixin"
    /\ request.view = [required_roles |-> {}]
    /\ request.user = User(1, "engineer")
    /\ response = HandlerResult

---------------------------------------------------------------------------
(* C2 *)

\* C2: for an authenticated principal with role R and a threshold M, both of the
\* closed set, a minimum-role guard allows iff ROLE_HIERARCHY[R] >= ROLE_HIERARCHY[M];
\* the three levels are pairwise distinct, admin passes every threshold and engineer
\* passes only the engineer threshold.
C2_MinimumRoleIffLevel ==
    /\ \A a, b \in Roles : a # b => ROLE_HIERARCHY[a] # ROLE_HIERARCHY[b]
    /\ (IsMinimumRoleRequest /\ Authenticated
          /\ request.user.role \in Roles /\ ConfiguredMinimum \in Roles)
        => /\ Allowed <=> ROLE_HIERARCHY[request.user.role] >= ROLE_HIERARCHY[ConfiguredMinimum]
           /\ request.user.role = "admin" => Allowed
           /\ request.user.role = "engineer" => (Allowed <=> ConfiguredMinimum = "engineer")

\* a metallurgist meets the metallurgist threshold of MinimumRolePermission
C2_Witness ==
    /\ request.entry = "MinimumRolePermission"
    /\ request.view = [minimum_role |-> "metallurgist"]
    /\ request.user = User(1, "metallurgist")
    /\ response = [allowed |-> TRUE]

---------------------------------------------------------------------------
(* C3 *)

\* C3: a minimum-role guard whose threshold or whose principal's role is outside the
\* closed set fails with an unknown-role error: it never allows the request, and it
\* never answers with the level comparison's "Insufficient role level".
C3_UnknownRoleIsAnError ==
    (IsMinimumRoleRequest /\ Authenticated
       /\ (request.user.role \notin Roles \/ ConfiguredMinimum \notin Roles))
        => /\ ~Allowed
           /\ IsRouteGuard => response.body.error # "Insufficient role level"

---------------------------------------------------------------------------
(* C4 *)

\* C4: for an unauthenticated principal every permission class denies and every
\* route guard returns the same authentication-required rejection, status 401,
\* whatever it was configured with.
C4_UnauthenticatedIs401 ==
    Unauthenticated
        => IF IsPermissionCheck
           THEN ~response.allowed
           ELSE IsRouteGuard =>
                  response = Rejection([error |-> "Authentication required"],
                                       HTTP_401_UNAUTHORIZED)

---------------------------------------------------------------------------
(* C5, C6, C7, C10: ownership *)

IsListing == request.entry \in {"get_queryset", "list"}

\* the rows of a queryset, as a set
Rows(queryset) == {queryset[i] : i \in 1..Len(queryset)}

\* C5: whatever was created before, a listing through OwnershipMixin.get_queryset
\* for a principal that is not an admin (an unauthenticated one included) holds no
\* resource of another owner, also when it was further filtered and paginated.
C5_NoLeak ==
    (IsListing /\ request.user.role # "admin")
        => \A row \in Rows(response.result) :
              request.user.is_authenticated /\ row.created_by = request.user.id

\* an engineer's filtered, paginated listing shows its own report while another
\* account's resource is in the collection
C5_Witness ==
    /\ request.entry = "list"
    /\ request.user.is_authenticated
    /\ request.user.role = "engineer"
    /\ request.category = "report"
    /\ Len(response.result) = 1
    /\ \E row \in Rows(resources) : row.created_by # request.user.id

\* C6: get_queryset gives exactly the base collection to an admin and, to an
\* authenticated principal that is not an admin, exactly the resources it created.
C6_ExactListing ==
    (request.entry = "get_queryset" /\ request.user.is_authenticated)
        => IF request.user.role = "admin"
           THEN response.result = resources
           ELSE /\ Rows(response.result)
                     = {row \in Rows(resources) : row.created_by = request.user.id}
                /\ Len(response.result) = Cardinality(Rows(response.result))

\* an engineer gets its one resource out of a collection of two
C6_Witness ==
    /\ request.entry = "get_queryset"
    /\ request.user.is_authenticated
    /\ request.user.role = "engineer"
    /\ Len(resources) = 2
    /\ Len(response.result) = 1

\* C7: applying the ownership-scoped listing to its own result changes nothing.
C7_Idempotent ==
    request.entry = "get_queryset"
        => OwnershipMixin_get_queryset(response.result, request.user) = response.result

\* an admin's listing of two resources, listed again
C7_Witness ==
    /\ request.entry = "get_queryset"
    /\ request.user.is_authenticated
    /\ request.user.role = "admin"
    /\ Len(response.result) = 2
    /\ OwnershipMixin_get_queryset(response.result, request.user) = resources

\* C10: the resource a principal that is not an admin creates through
\* perform_create is stored with created_by = that principal, whatever owner the
\* client sent.
C10_OwnerStamped ==
    (request.entry = "perform_create" /\ request.user.is_authenticated
       /\ request.user.role # "admin")
        => /\ response.created.created_by = request.user.id
           /\ resources[Len(resources)] = response.created

\* an engineer sends another account as owner and is stored as the owner itself
C10_Witness ==
    /\ request.entry = "perform_create"
    /\ request.user.is_authenticated
    /\ request.user.role = "engineer"
    /\ "created_by" \in DOMAIN request.data
    /\ request.data.created_by # request.user.id
    /\ resources[Len(resources)].created_by = request.user.id

---------------------------------------------------------------------------
(* C8 *)

\* C8: a DELETE on UserManagementView by an admin whose target is the admin itself
\* is answered with the self-deletion error, not with the handler's success nor
\* with the role rejection, and the admin's account is still in the store.
C8_SelfDeletionRejected ==
    (request.entry = "UserManagementView" /\ request.method = "DELETE"
       /\ request.user.is_authenticated /\ request.user.role = "admin"
       /\ request.target = request.user.id)
        => /\ response.body = [error |-> "Cannot delete your own account"]
           /\ response.status \notin {200, 204}
           /\ request.user.id \in DOMAIN users

---------------------------------------------------------------------------
(* C9 *)

\* C9: every rejection of a route guard has status 401 when the principal is
\* unauthenticated and 403 when it is authenticated, and a role-based 403 carries
\* the required (allowed or minimum) role and the principal's actual role.
C9_RejectionStatus ==
    (IsRouteGuard /\ response.invoked = 0)
        => /\ response.status = IF request.user.is_authenticated
                                THEN HTTP_403_FORBIDDEN
                                ELSE HTTP_401_UNAUTHORIZED
           /\ response.status = HTTP_403_FORBIDDEN
                => /\ "user_role" \in DOMAIN response.body
                   /\ response.body.user_role = request.user.role
                   /\ \/ "required_roles" \in DOMAIN response.body
                      \/ "minimum_role" \in DOMAIN response.body

---------------------------------------------------------------------------
(* C11 *)

\* C11: through every sequence of create, update, list and delete on a view with
\* OwnershipMixin, every resource has an owner, and a resource keeps the created_by
\* it was created with.
C11_OwnershipNeverTransfers ==
    /\ [](\A row \in Rows(resources) : row.created_by \in UserIds)
    /\ [][\A old \in Rows(resources), new \in Rows(resources') :
             old.id = new.id => new.created_by = old.created_by]_vars

---------------------------------------------------------------------------
(* C12 *)

\* C12: with a report supplied, CanViewReports gives access iff the principal is
\* authenticated and is an admin or the report's creator; the object check comes on
\* top of the view-level check, which a principal given access has passed.
C12_OwnerOrAdmin ==
    request.entry = "CanViewReports.object"
        => /\ response.allowed <=>
                /\ request.user.is_authenticated
                /\ \/ request.user.role = "admin"
                   \/ request.obj.created_by = request.user.id
           /\ response.allowed => CanViewReports([user |-> request.user, method |-> "GET"])
           /\ (request.user.is_authenticated /\ request.user.role = "engineer")
                => (response.allowed <=> request.obj.created_by = request.user.id)

\* a metallurgist is refused another account's report
C12_Witness ==
    /\ request.entry = "CanViewReports.object"
    /\ request.user = User(1, "metallurgist")
    /\ request.obj.created_by = 2
    /\ response = [allowed |-> FALSE]

---------------------------------------------------------------------------
(* C13 *)

\* the roles a write needs under each of the three method-sensitive classes
WriterRoles ==
    [CanUploadDatasets |-> {"metallurgist", "admin"},
     CanManageAIModels |-> {"metallurgist", "admin"},
     CanManageUsers |-> {"admin"}]

\* C13: CanUploadDatasets, CanManageAIModels and CanManageUsers allow a safe method
\* (GET, HEAD, OPTIONS) to every authenticated principal whatever its role, and any
\* other method iff the principal is authenticated and has one of the writer roles.
C13_SafeMethodsReadable ==
    request.entry \in DOMAIN WriterRoles
        => IF request.method \in {"GET", "HEAD", "OPTIONS"}
           THEN response.allowed <=> request.user.is_authenticated
           ELSE response.allowed <=>
                    /\ request.user.is_authenticated
                    /\ request.user.role \in WriterRoles[request.entry]

\* a metallurgist's POST under CanUploadDatasets is allowed
C13_Witness ==
    /\ request.entry = "CanUploadDatasets"
    /\ request.user = User(1, "metallurgist")
    /\ request.method = "POST"
    /\ response = [allowed |-> TRUE]

---------------------------------------------------------------------------
(* C14 *)

\* the guard answered itself: a redirect to the login page, a 401 or a 403
IsRejection(resp) ==
    "status" \in DOMAIN resp /\ resp.status \in {302, HTTP_401_UNAUTHORIZED, HTTP_403_FORBIDDEN}

\* C14: when role_required, minimum_role_required, api_role_required,
\* RoleBasedViewMixin.dispatch or RoleBasedModelViewSet.check_permissions denies a
\* request, the handler is not invoked and nothing the handler writes is changed.
C14_DeniedHandlerNotInvoked ==
    [][(request'.entry \in RouteGuards \cup {"RoleBasedModelViewSet"} /\ IsRejection(response'))
          => /\ response'.invoked = 0
             /\ resources' = resources
             /\ users' = users]_vars

\* an engineer is refused the destroy of a row that exists
C14_Witness ==
    /\ request.entry = "RoleBasedModelViewSet"
    /\ request.user = User(1, "engineer")
    /\ request.action = "destroy"
    /\ response.status = HTTP_403_FORBIDDEN
    /\ \E i \in 1..Len(resources) : resources[i].id = request.id

---------------------------------------------------------------------------
(* C15, C17, C18, C19: the audited endpoints *)

AuditedEndpoints == {"UserManagementView", "logout"}

\* the guards in front of the audited handler let the principal through
GuardsPass ==
    CASE request.entry = "UserManagementView" ->
            /\ RoleBasedViewMixin_dispatch(AdminOnlyMixin, request.user, HandlerResult).invoked = 1
            /\ IsAuthenticated(request)
            /\ CanManageUsers(request)
      [] request.entry = "logout" -> IsAuthenticated(request)
      [] OTHER -> FALSE

\* status, body and number of invocations of a response
Answer(resp) == [k \in {"status", "body", "invoked"} |-> resp[k]]

\* the records of one level in a log
RecordsAt(log, level) == SelectSeq(log, LAMBDA record : record.level = level)

\* the path of the audited request
RequestPath ==
    IF request.entry = "logout" THEN <<"logout">> ELSE <<"users", request.target>>

\* C15: when the guards allow a request, the handler is invoked exactly once and its
\* result is what the client gets, also for the handlers of UserManagementView that
\* log_permission_check wraps.
C15_AllowedHandlerInvokedOnce ==
    (request.entry \in AuditedEndpoints /\ GuardsPass)
        => /\ response.invoked = 1
           /\ response.status # 500

\* C17: every request to an audited endpoint, let through or rejected, leaves exactly
\* one audit record, which carries the principal's identity and role (Anonymous for
\* none) and the request's path.
C17_OneAuditRecordPerDecision ==
    request.entry \in AuditedEndpoints
        => RecordsAt(response.log, "INFO") =
              << [level |-> "INFO",
                  func |-> IF request.entry = "logout" THEN "logout" ELSE request.method,
                  user |-> IF request.user.is_authenticated
                           THEN <<request.user.id, request.user.role>>
                           ELSE <<"Anonymous">>,
                  path |-> RequestPath] >>

\* the request was denied: authentication required, insufficient role, or the
\* self-deletion error
IsDenial(resp) ==
    \/ resp.status \in {HTTP_401_UNAUTHORIZED, HTTP_403_FORBIDDEN}
    \/ resp.body = [error |-> "Cannot delete your own account"]

\* C18: a denied request to an audited endpoint has a record at warning level, and a
\* request that was let through has none.
C18_DenialsWarned ==
    request.entry \in AuditedEndpoints
        => (IsDenial(response) <=> RecordsAt(response.log, "WARNING") # <<>>)

\* C19: a failure while the audit record is written leaves the outcome as it would
\* be without it: the client gets the answer of the handler's body, and the store
\* is the one the body leaves.
C19_AuditFailureSwallowed ==
    [][(request'.entry = "UserManagementView" /\ GuardsPass')
          => LET req == RequestObject(request'.user, request'.method, request'.target)
                 view == ViewObject(req, request'.target, request'.data)
                 expected == UserManagementView_body(users, req, view)
             IN  /\ Answer(response') = Answer(expected)
                 /\ users' = expected.users]_vars

---------------------------------------------------------------------------
(* C16 *)

\* C16: for one principal and one role list, role_required, api_role_required and
\* RoleBasedViewMixin give the same decision and, when they deny, the same status and
\* reason; so do minimum_role_required and RoleBasedViewMixin.minimum_role for one
\* threshold.
C16_GuardsAgree ==
    /\ request.entry \in {"role_required", "api_role_required"}
         => /\ response = role_required(request.roles, request.user, HandlerResult)
            /\ response = api_role_required(request.roles, request.user, HandlerResult)
            /\ response = RoleBasedViewMixin_dispatch([required_roles |-> request.roles],
                                                      request.user, HandlerResult)
    /\ request.entry = "minimum_role_required"
         => response = RoleBasedViewMixin_dispatch([minimum_role |-> request.minimum_role],
                                                   request.user, HandlerResult)

---------------------------------------------------------------------------
(* C20 *)

---------------------------------------------------------------------------
(* C21 *)

\* C21: a DELETE on UserManagementView by an authenticated engineer or metallurgist
\* is answered 403 'Insufficient permissions' with required_roles = [admin] and the
\* principal's role, whichever account is the target, its own included, and the
\* store is left as it was.
C21_NonAdminDeleteRejected ==
    [][(/\ request'.entry = "UserManagementView"
        /\ request'.method = "DELETE"
        /\ request'.user.is_authenticated
        /\ request'.user.role \in {"engineer", "metallurgist"})
          => /\ response'.status = HTTP_403_FORBIDDEN
             /\ response'.body = [error |-> "Insufficient permissions",
                                  required_roles |-> {"admin"},
                                  user_role |-> request'.user.role]
             /\ response'.invoked = 0
             /\ users' = users]_vars

\* an engineer asked for the deletion of its own account and was refused
C21_Witness ==
    /\ request.entry = "UserManagementView"
    /\ request.method = "DELETE"
    /\ request.user.is_authenticated
    /\ request.user.role = "engineer"
    /\ request.target = request.user.id
    /\ response.status = HTTP_403_FORBIDDEN
    /\ request.target \in DOMAIN users

---------------------------------------------------------------------------
(* C22 *)

\* C22: an account stays in the store through every request; the only request that
\* removes one is a DELETE on UserManagementView for that account sent by an
\* authenticated admin who is another account.
C22_AccountsPersist ==
    [][\A id \in DOMAIN users :
          id \notin DOMAIN users'
            => /\ request'.entry = "UserManagementView"
               /\ request'.method = "DELETE"
               /\ request'.target = id
               /\ request'.user.is_authenticated
               /\ request'.user.role = "admin"
               /\ request'.user.id # id]_vars

\* a metallurgist asked for the deletion of a registered account, which is still there
C22_Witness ==
    /\ request.entry = "UserManagementView"
    /\ request.method = "DELETE"
    /\ request.user.is_authenticated
    /\ request.user.role = "metallurgist"
    /\ request.target \in DOMAIN users
    /\ request.target # request.user.id
    /\ DOMAIN users = UserIds

---------------------------------------------------------------------------
(* C23 *)

\* C23: when the view declares no required_roles, or an empty list, RoleBasedPermission
\* allows every authenticated principal whatever its role and denies every
\* unauthenticated one.
C23_NoRolesNoRestriction ==
    (request.entry = "RoleBasedPermission"
       /\ GetAttr(request.view, "required_roles", {}) = {})
        => (response.allowed <=> request.user.is_authenticated)

\* a principal whose role is outside the closed set is allowed on a view that
\* declares nothing
C23_Witness ==
    /\ request.entry = "RoleBasedPermission"
    /\ request.view = NoView
    /\ request.user = User(1, UnrecognizedRole)
    /\ response = [allowed |-> TRUE]

---------------------------------------------------------------------------
(* C24 *)

\* C24: a PUT or PATCH on ProfileView ends with a decision and not with a fault: an
\* authenticated requester, who is the owner of the profile it addresses, has the
\* update handler run, and an unauthenticated one is denied.
C24_ProfileUpdateDecides ==
    (request.entry = "ProfileView" /\ request.method \in {"PUT", "PATCH"})
        => /\ response.status # 500
           /\ IF request.user.is_authenticated
              THEN response.invoked = 1
              ELSE response.status \in {HTTP_401_UNAUTHORIZED, HTTP_403_FORBIDDEN}

---------------------------------------------------------------------------
(* C25 *)

---------------------------------------------------------------------------
(* C26 *)

\* C26: for an authenticated user the 'permissions' object of test_permissions tells
\* what the role can do: can_manage_users and is_admin iff admin, can_upload_datasets
\* and can_manage_ai_models iff metallurgist or admin, can_view_reports and
\* is_engineer_or_above for the three roles; and it agrees with 'capabilities'.
C26_ReportedCapabilities ==
    (request.entry = "test_permissions" /\ request.user.is_authenticated)
        => LET role == request.user.role
               p == response.body.permissions
               c == response.body.capabilities
           IN  /\ p.can_manage_users <=> role = "admin"
               /\ p.is_admin <=> role = "admin"
               /\ p.can_upload_datasets <=> role \in {"metallurgist", "admin"}
               /\ p.can_manage_ai_models <=> role \in {"metallurgist", "admin"}
               /\ p.can_view_reports <=> role \in Roles
               /\ p.is_engineer_or_above <=> role \in Roles
               /\ p.can_manage_users <=> c.admin.manage_users
               /\ p.can_upload_datasets <=> c.metallurgist.upload_datasets
               /\ p.can_manage_ai_models <=> c.metallurgist.manage_ai_models
               /\ p.can_view_reports <=> c.engineer.view_reports

---------------------------------------------------------------------------
(* C27 *)

\* C27: a request by a principal that is not an authenticated admin creates no admin
\* account and changes the role of no existing account.
C27_NoSelfServiceEscalation ==
    [][~(request'.user.is_authenticated /\ request'.user.role = "admin")
          => \A id \in DOMAIN users' :
                IF id \in DOMAIN users
                THEN users'[id] = users[id]
                ELSE users'[id] # "admin"]_vars

---------------------------------------------------------------------------
(* C28 *)

\* the accounts of the store with role admin
Admins(store) == {i \in DOMAIN store : store[i] = "admin"}

---------------------------------------------------------------------------
(* C29 *)

\* the roles the table asks for an action: those of 'list' for no action, admin for
\* an action the table does not name
RequiredFor(action) ==
    IF action = NoAction THEN role_permissions["list"]
    ELSE IF action \in DOMAIN role_permissions THEN role_permissions[action]
    ELSE {"admin"}

\* C29: RoleBasedModelViewSet.check_permissions lets an authenticated principal
\* through iff its role is in role_permissions[action], no action counting as 'list'
\* and an action missing from the table asking for admin; and for every action the
\* table allows admin and, with a role, every role of a higher level.
C29_ViewSetTable ==
    /\ (request.entry = "RoleBasedModelViewSet" /\ request.user.is_authenticated)
          => (response.invoked = 1 <=> request.user.role \in RequiredFor(request.action))
    /\ (request.entry = "RoleBasedModelViewSet" /\ ~request.user.is_authenticated)
          => response.invoked = 0
    /\ \A action \in ViewSetActions :
          /\ "admin" \in RequiredFor(action)
          /\ \A r1 \in RequiredFor(action), r2 \in Roles :
                ROLE_HIERARCHY[r2] >= ROLE_HIERARCHY[r1] => r2 \in RequiredFor(action)

\* a metallurgist is refused an action the table does not name
C29_Witness ==
    /\ request.entry = "RoleBasedModelViewSet"
    /\ request.user = User(1, "metallurgist")
    /\ request.action = "export"
    /\ response.status = HTTP_403_FORBIDDEN
    /\ response.invoked = 0

---------------------------------------------------------------------------
(* C30 *)

\* the threshold each fixed class stands for
ThresholdOf ==
    [IsAdminRole |-> "admin", IsMetallurgistOrAdmin |-> "metallurgist",
     IsEngineerOrAbove |-> "engineer", CanRunLCA |-> "engineer"]

\* C30: for every principal, one with a role outside the closed set included,
\* IsAdminRole, IsMetallurgistOrAdmin, IsEngineerOrAbove and CanRunLCA decide as
\* MinimumRolePermission does with minimum_role admin, metallurgist, engineer and
\* engineer; and MinimumRolePermission on a view without minimum_role decides as with
\* minimum_role engineer.
C30_FixedClassesFollowHierarchy ==
    LET req == [user |-> request.user, method |-> request.method]
    IN  /\ request.entry \in DOMAIN ThresholdOf
            => (response.allowed <=>
                  MinimumRolePermission(req, [minimum_role |-> ThresholdOf[request.entry]]))
        /\ (request.entry = "MinimumRolePermission" /\ request.view = NoView)
            => (response.allowed <=>
                  MinimumRolePermission(req, [minimum_role |-> "engineer"]))
        /\ (request.entry = "MinimumRolePermission" /\ request.view # NoView
              /\ request.view.minimum_role \in Roles)
            => \A class \in DOMAIN ThresholdOf :
                  ThresholdOf[class] = request.view.minimum_role
                    => (response.allowed <=> has_permission(class, req, NoView))

\* a principal with a role outside the closed set is refused by IsEngineerOrAbove
C30_Witness ==
    /\ request.entry = "IsEngineerOrAbove"
    /\ request.user = User(1, UnrecognizedRole)
    /\ response = [allowed |-> FALSE]

===========================================================================
